---- MODULE Spec2Model ----
(***************************************************************************)
(* A state-machine model of the pholkhol backend (FastAPI application):    *)
(*   backend/app/auth.py           registration, login, bearer tokens      *)
(*   backend/app/main.py           upload, post, vote and comment handlers *)
(*   backend/app/kestra_client.py  the workflow trigger                    *)
(* The relational store is modelled by the variables users, posts, votes   *)
(* and comments, the object store by objects, the background tasks of the  *)
(* web framework by tasks.  One action stands for one request handler,     *)
(* run from its first statement to its response; for the handlers whose    *)
(* requests are studied while they run at the same time, one action stands *)
(* for one statement of a request in flight.                               *)
(***************************************************************************)
EXTENDS Integers, Sequences, FiniteSets, Bags, TLC

VARIABLES
  users,      \* table users: set of rows [id, username, email, hashed_password]
  posts,      \* table posts: set of rows
  votes,      \* table votes: bag of rows [post_id, user_id, vote]
  comments,   \* table comments: set of rows
  objects,    \* object store, bucket BUCKET: set of object keys
  tasks,      \* background tasks added and not yet run: set of [post_id, timeout]
  now,        \* the clock, in seconds since the process started
  resp,       \* the response of the last request
  trig,       \* the outcome of the last run of a background task
  inflight    \* the requests run statement by statement: one record each

vars == <<users, posts, votes, comments, objects, tasks, now, resp, trig,
          inflight>>

(***************************************************************************)
(* Bounds of the model.                                                    *)
(***************************************************************************)
MaxTicks == 2       \* clock advances per behaviour
MaxPosts == 1       \* identifiers drawn for posts
MaxComments == 1    \* rows of table comments
MaxRequests == 2    \* requests run statement by statement per behaviour

(***************************************************************************)
(* Values.                                                                 *)
(***************************************************************************)
None == <<"None">>                \* Python None / SQL NULL
Str(x) == <<"str", x>>            \* str(x) of an identifier x

Usernames == {"alice", "bob"}
Emails == {"a@x.io", "b@x.io"}
Passwords == {"password1", "password2"}

\* The body of a response that carries none.
NoBody == [none |-> TRUE]
\* The headers of a response that sets none.
NoHeaders == "none"

\* HTTPException(status_code, detail, headers) as the response the framework
\* makes of it; cause is bookkeeping of the model (which raise statement it
\* was), never a part of the response.
HTTPException(op, status_code, detail, headers, cause) ==
  [op |-> op, status |-> status_code, detail |-> detail, headers |-> headers,
   body |-> NoBody, cause |-> cause]

\* A handler's return value as the 200 response the framework makes of it.
Return(op, body) ==
  [op |-> op, status |-> 200, detail |-> "", headers |-> NoHeaders,
   body |-> body, cause |-> "return"]

\* What a client sees of a response.
Observable(r) ==
  [status |-> r.status, detail |-> r.detail, headers |-> r.headers, body |-> r.body]

(***************************************************************************)
(* auth.py: configuration.                                                 *)
(***************************************************************************)
SECRET_KEY == "change-this-secret-key"
OtherKey == "some-other-key"
ACCESS_TOKEN_EXPIRE_MINUTES == 1440
\* timedelta(minutes=ACCESS_TOKEN_EXPIRE_MINUTES), in seconds
Lifetime == ACCESS_TOKEN_EXPIRE_MINUTES * 60

(***************************************************************************)
(* auth.py: password hashing (passlib CryptContext, scheme argon2).  A     *)
(* hash is self-describing: scheme, cost parameters, and the digest, which *)
(* is kept as the password it was made of; nothing compares a hash with a  *)
(* password but verify_password.                                           *)
(***************************************************************************)
get_password_hash(password) ==
  [scheme |-> "argon2", params |-> "current", digest |-> <<"digest", password>>]

verify_password(plain_password, hashed_password) ==
  /\ hashed_password.scheme = "argon2"
  /\ hashed_password.digest = <<"digest", plain_password>>

needs_update(hashed_password) == hashed_password.params # "current"

\* A hash of the password made under earlier cost parameters of the scheme:
\* it verifies, and deprecated="auto" has needs_update tell it apart.
legacy_hash(password) ==
  [scheme |-> "argon2", params |-> "legacy", digest |-> <<"digest", password>>]

(***************************************************************************)
(* auth.py: DB helpers.  Each returns the set of matching rows (fetchone   *)
(* takes the one there is; the empty set is Python None).                  *)
(***************************************************************************)
get_user_by_username(username) == {r \in users : r.username = username}

get_user_by_id(user_id) == {r \in users : Str(r.id) = user_id}

(***************************************************************************)
(* auth.py: JWT helpers (python-jose, HS256).  A token is its claims and a *)
(* signature over them; wf tells a well-formed token from a string that is *)
(* no JWT.                                                                 *)
(***************************************************************************)
HS256(key, claims) == <<"hs256", key, claims>>

jwt_encode(claims, key) == [wf |-> TRUE, claims |-> claims, sig |-> HS256(key, claims)]

\* create_access_token(data) with expires_delta None, called at time t.
create_access_token(data, t) ==
  jwt_encode([sub |-> data.sub, exp |-> t + Lifetime, iat |-> t], SECRET_KEY)

\* jose's expiry check at time t: "if exp < now: raise ExpiredSignatureError".
jwt_expired(claims, t) == claims.exp < t

\* A faulty variant of the decoding: the signature is not verified.
jwt_decode_unverified(token, key, t) ==
  IF ~token.wf THEN [ok |-> FALSE, error |-> "JWTError"]
  ELSE IF jwt_expired(token.claims, t)
    THEN [ok |-> FALSE, error |-> "ExpiredSignatureError"]
  ELSE [ok |-> TRUE, payload |-> token.claims]

\* jwt.decode(token, key, algorithms=[ALGORITHM]) at time t: the claims, or a
\* JWTError (malformed token, bad signature, expired).
jwt_decode(token, key, t) ==
  IF ~token.wf THEN [ok |-> FALSE, error |-> "JWTError"]
  ELSE IF token.sig # HS256(key, token.claims)
    THEN [ok |-> FALSE, error |-> "JWTError"]
  ELSE IF jwt_expired(token.claims, t)
    THEN [ok |-> FALSE, error |-> "ExpiredSignatureError"]
  ELSE [ok |-> TRUE, payload |-> token.claims]

credentials_exception(op) ==
  HTTPException(op, 401, "Could not validate credentials",
                "WWW-Authenticate: Bearer", "credentials_exception")

\* get_current_user(token): the identity of the caller, or the 401.
get_current_user(op, token) ==
  LET d == jwt_decode(token, SECRET_KEY, now) IN
  IF ~d.ok THEN credentials_exception(op)
  ELSE IF d.payload.sub = None THEN credentials_exception(op)
  ELSE LET rows == get_user_by_id(d.payload.sub) IN
    IF rows = {} THEN credentials_exception(op)
    ELSE LET user_row == CHOOSE r \in rows : TRUE IN
      Return(op, [id |-> Str(user_row.id), username |-> user_row.username,
                  email |-> user_row.email])

\* oauth2_scheme: the bearer token of the request; a request without an
\* Authorization header (auth = <<>>) is answered 401 before get_current_user.
Depends_get_current_user(op, auth) ==
  IF auth = <<>>
    THEN HTTPException(op, 401, "Not authenticated", "WWW-Authenticate: Bearer",
                       "oauth2_scheme")
    ELSE get_current_user(op, auth[1])

(***************************************************************************)
(* The tokens a client may present at time `now`: issued just now, a       *)
(* lifetime ago or longer ago, for a user id, an id no row has, or no      *)
(* subject; signed with the secret, with another key, with the signature   *)
(* of other claims or with an altered signature; or no JWT at all.         *)
(***************************************************************************)
Subjects == {None} \cup {Str(i) : i \in 1..3}
IssueTimes == {t \in {now - Lifetime - 1, now - Lifetime, now} : t >= 0}
Claims == {[sub |-> s, exp |-> t + Lifetime, iat |-> t] : s \in Subjects, t \in IssueTimes}
Signatures(c) ==
  {HS256(SECRET_KEY, c), HS256(OtherKey, c),
   HS256(SECRET_KEY, [c EXCEPT !.exp = c.exp - 1]), <<"altered">>}
PresentedTokens ==
  UNION {{[wf |-> TRUE, claims |-> c, sig |-> s] : s \in Signatures(c)} : c \in Claims}
  \cup {[wf |-> FALSE, claims |-> [sub |-> None, exp |-> now, iat |-> now],
         sig |-> <<"altered">>]}

\* The Authorization header of a request: absent, or one presented token.
Authorizations == {<<>>} \cup {<<t>> : t \in PresentedTokens}

(***************************************************************************)
(* The state after construction: an empty store, no response yet.          *)
(***************************************************************************)
NoResponse == Return("none", NoBody)
NoTrigger ==
  [post_id |-> None, timeout |-> None, raised |-> FALSE, result |-> None]

\* The requests run statement by statement: none has arrived yet.
Requests == 1..MaxRequests
NoRequests == [i \in Requests |-> [pc |-> "idle"]]

Init ==
  /\ users = {}
  /\ posts = {}
  /\ votes = EmptyBag
  /\ comments = {}
  /\ objects = {}
  /\ tasks = {}
  /\ now = 0
  /\ resp = NoResponse
  /\ trig = NoTrigger
  /\ inflight = NoRequests

\* Time passes: a second, or a token lifetime.
Tick ==
  /\ (now \div Lifetime) + (now % Lifetime) < MaxTicks
  /\ \E d \in {1, Lifetime} : now' = now + d
  /\ UNCHANGED <<users, posts, votes, comments, objects, tasks, resp, trig, inflight>>

(***************************************************************************)
(* auth.py: POST /api/register.  The request bodies are those the schema   *)
(* UserCreate lets through.                                                *)
(***************************************************************************)
UserCreate == [username : Usernames, email : Emails, password : Passwords]

\* A faulty variant of the existence query: AND in place of OR.
register_exists_and(user) ==
  \E r \in users : r.username = user.username /\ r.email = user.email

\* SELECT 1 FROM users WHERE username = :u OR email = :e
register_exists(user) ==
  \E r \in users : r.username = user.username \/ r.email = user.email

\* INSERT INTO users ... RETURNING id, username, email; id is server-generated.
register_insert(user) ==
  [id |-> Cardinality(users) + 1, username |-> user.username, email |-> user.email,
   hashed_password |-> get_password_hash(user.password)]

\* The handler: the table users after the request, and the response.
register(user) ==
  IF register_exists(user)
    THEN [users |-> users,
          resp |-> HTTPException("register", 400,
                     "Username or email already registered", NoHeaders, "exists")]
    ELSE LET created == register_insert(user) IN
         [users |-> users \cup {created},
          resp |-> Return("register",
                     [id |-> Str(created.id), username |-> created.username,
                      email |-> created.email])]

Register ==
  \E user \in UserCreate :
    /\ users' = register(user).users
    /\ resp' = register(user).resp @@ [request |-> user]
    /\ UNCHANGED <<posts, votes, comments, objects, tasks, now, trig, inflight>>

(***************************************************************************)
(* auth.py: POST /api/register, statement by statement, for requests that  *)
(* run at the same time.  The existence query reads the committed table;   *)
(* the INSERT reaches it when the with block commits.                      *)
(***************************************************************************)
RegisterDone(r, response) ==
  [pc |-> "done", user |-> r.user, status |-> response.status]

\* The request arrives, its transaction begins and runs the existence query;
\* with a row found the 400 is raised and the with block rolls back.
RegisterSelect ==
  \E i \in Requests, user \in UserCreate :
    LET r == [pc |-> "insert", op |-> "register", user |-> user]
        e == HTTPException("register", 400,
               "Username or email already registered", NoHeaders, "exists")
    IN /\ inflight[i].pc = "idle"
       /\ IF register_exists(user)
            THEN /\ inflight' = [inflight EXCEPT ![i] = RegisterDone(r, e)]
                 /\ resp' = e
            ELSE /\ inflight' = [inflight EXCEPT ![i] = r]
                 /\ resp' = resp
       /\ UNCHANGED <<users, posts, votes, comments, objects, tasks, now, trig>>

\* INSERT INTO users ... RETURNING, the commit on leaving the with block,
\* and the return.
RegisterInsert ==
  \E i \in Requests :
    LET r == inflight[i]
        created == register_insert(r.user)
        ok == Return("register",
                [id |-> Str(created.id), username |-> created.username,
                 email |-> created.email])
    IN /\ r.pc = "insert"
       /\ r.op = "register"
       /\ users' = users \cup {created}
       /\ inflight' = [inflight EXCEPT ![i] = RegisterDone(r, ok)]
       /\ resp' = ok
       /\ UNCHANGED <<posts, votes, comments, objects, tasks, now, trig>>

\* The INSERT or the commit fails in the store: rolled back; the handler has
\* no except clause, the framework answers 500.
RegisterFail ==
  \E i \in Requests :
    LET r == inflight[i]
        e == HTTPException("register", 500, "Internal Server Error", NoHeaders,
                           "db")
    IN /\ r.pc = "insert"
       /\ r.op = "register"
       /\ inflight' = [inflight EXCEPT ![i] = RegisterDone(r, e)]
       /\ resp' = e
       /\ UNCHANGED <<users, posts, votes, comments, objects, tasks, now, trig>>

NextRegisterRace == RegisterSelect \/ RegisterInsert \/ RegisterFail
SpecRegisterRace == Init /\ [][NextRegisterRace]_vars

(***************************************************************************)
(* auth.py: POST /api/login.                                               *)
(***************************************************************************)
LoginUsernames == Usernames \cup {"mallory"}

\* A faulty variant of the first failure: it tells that the user is unknown.
unknown_user_exception_404 ==
  HTTPException("login", 404, "User not found", NoHeaders, "unknown-user")

\* line 158: no row has the username
unknown_user_exception ==
  HTTPException("login", 400, "Incorrect username or password", NoHeaders,
                "unknown-user")

\* line 162: the password does not verify against the stored hash
wrong_password_exception ==
  HTTPException("login", 400, "Incorrect username or password", NoHeaders,
                "wrong-password")

\* A faulty variant of the upgrade write: the UPDATE has no WHERE clause.
login_rehash_all(user_row, password) ==
  {[r EXCEPT !.hashed_password = get_password_hash(password)] : r \in users}

\* UPDATE users SET hashed_password = :h WHERE id = :id
login_rehash(user_row, password) ==
  {IF r.id = user_row.id
     THEN [r EXCEPT !.hashed_password = get_password_hash(password)]
     ELSE r : r \in users}

\* The handler; committed tells whether the upgrade write of the hash, when
\* there is one, commits (a failure of it is swallowed).
login(form_data, committed) ==
  LET rows == get_user_by_username(form_data.username) IN
  IF rows = {}
    THEN [users |-> users, resp |-> unknown_user_exception]
    ELSE LET user_row == CHOOSE r \in rows : TRUE IN
      IF ~verify_password(form_data.password, user_row.hashed_password)
        THEN [users |-> users, resp |-> wrong_password_exception]
        ELSE [users |-> IF needs_update(user_row.hashed_password) /\ committed
                          THEN login_rehash(user_row, form_data.password)
                          ELSE users,
              resp |-> Return("login",
                         [access_token |->
                            create_access_token([sub |-> Str(user_row.id)], now),
                          token_type |-> "bearer"])]

OAuth2PasswordRequestForm == [username : LoginUsernames, password : Passwords]

Login ==
  \E form_data \in OAuth2PasswordRequestForm, committed \in BOOLEAN :
    /\ users' = login(form_data, committed).users
    /\ resp' = login(form_data, committed).resp
    /\ UNCHANGED <<posts, votes, comments, objects, tasks, now, trig, inflight>>

(***************************************************************************)
(* auth.py: get_current_user run on a presented token, as the dependency   *)
(* of a protected route runs it.  The response records the token and the   *)
(* time of the request.                                                    *)
(***************************************************************************)
ResolveCurrentUser ==
  \E token \in PresentedTokens :
    /\ resp' = [op |-> "resolve", token |-> token, at |-> now,
                result |-> Observable(get_current_user("resolve", token))]
    /\ UNCHANGED <<users, posts, votes, comments, objects, tasks, now, trig, inflight>>

NextAuth == Register \/ Login \/ ResolveCurrentUser \/ Tick

SpecAuth == Init /\ [][NextAuth]_vars

\* Login over a store whose two users registered under earlier cost
\* parameters: their stored hashes need the upgrade.
LegacyUsers ==
  {[id |-> 1, username |-> "alice", email |-> "a@x.io",
    hashed_password |-> legacy_hash("password1")],
   [id |-> 2, username |-> "bob", email |-> "b@x.io",
    hashed_password |-> legacy_hash("password2")]}

InitLogin ==
  /\ users = LegacyUsers
  /\ posts = {}
  /\ votes = EmptyBag
  /\ comments = {}
  /\ objects = {}
  /\ tasks = {}
  /\ now = 0
  /\ resp = NoResponse
  /\ trig = NoTrigger
  /\ inflight = NoRequests

NextLogin == Login \/ Tick
SpecLogin == InitLogin /\ [][NextLogin]_vars

(***************************************************************************)
(* Requests to the protected routes of main.py.  Every handler takes the   *)
(* result `cu` of its dependency get_current_user: a 401 response, or a    *)
(* 200 whose body is the caller.                                           *)
(***************************************************************************)
Uuid(n) == <<"uuid", n>>          \* str(uuid.uuid4()), the n-th drawn
cast_id(s) == s[2]                \* a bound id parameter as the column's value

\* The results of the dependency over all the Authorization headers a client
\* may send.
Credentials(op) == {Depends_get_current_user(op, a) : a \in Authorizations}

\* s.split(sep)[0] and s.split(sep)[-1] of a string s given as a sequence.
RECURSIVE SplitFirst(_, _)
SplitFirst(s, sep) ==
  IF s = <<>> \/ Head(s) = sep THEN <<>>
  ELSE <<Head(s)>> \o SplitFirst(Tail(s), sep)

RECURSIVE SplitLast(_, _)
SplitLast(s, sep) ==
  IF s = <<>> THEN <<>>
  ELSE LET n == Len(s) IN
    IF s[n] = sep THEN <<>>
    ELSE SplitLast(SubSeq(s, 1, n - 1), sep) \o <<s[n]>>

Contains(s, x) == \E i \in 1..Len(s) : s[i] = x

(***************************************************************************)
(* kestra_client.py: the workflow trigger.                                 *)
(***************************************************************************)
PyInt(n) == <<"int", n>>
IsNumber(x) == x[1] = "int"
KestraDefaultTimeout == 10

\* What the HTTP call to the engine may do.
NetOutcomes == {"connect-error", "timeout", "non-2xx", "bad-json", "ok"}

\* A faulty variant of the trigger: raise_for_status outside the try block.
trigger_kestra_unguarded(post_id, timeout, net) ==
  IF ~IsNumber(timeout) THEN [raised |-> FALSE, result |-> None]
  ELSE IF net = "non-2xx" THEN [raised |-> TRUE, result |-> None]
  ELSE IF net = "ok" THEN [raised |-> FALSE, result |-> [id |-> post_id]]
  ELSE [raised |-> FALSE, result |-> None]

\* trigger_kestra(post_id, timeout): the try block holds the client, the
\* request, raise_for_status and resp.json(); `except Exception` returns None.
\* A timeout that is no number makes the client fail inside the try block.
trigger_kestra(post_id, timeout, net) ==
  LET raisedInTry ==
        \/ ~IsNumber(timeout)                        \* TypeError in the client
        \/ net \in {"connect-error", "timeout"}      \* client.post raises
        \/ net = "non-2xx"                           \* raise_for_status raises
        \/ net = "bad-json"                          \* resp.json() raises
  IN IF raisedInTry
       THEN [raised |-> FALSE, result |-> None]
       ELSE [raised |-> FALSE, result |-> [id |-> post_id]]

\* A background task calls its function with the positional arguments given
\* to add_task; a parameter left without argument takes its default.
RunTask ==
  \E task \in tasks, net \in NetOutcomes :
    LET post_id == task.args[1]
        timeout == IF Len(task.args) >= 2 THEN task.args[2]
                   ELSE PyInt(KestraDefaultTimeout)
        out == trigger_kestra(post_id, timeout, net)
    IN /\ tasks' = tasks \ {task}
       /\ trig' = [post_id |-> post_id, timeout |-> timeout,
                   raised |-> out.raised, result |-> out.result]
       /\ UNCHANGED <<users, posts, votes, comments, objects, now, resp, inflight>>

(***************************************************************************)
(* main.py: POST /api/post_file.                                           *)
(***************************************************************************)
BUCKET == "citysense"
Endpoint == "http://localhost:9000"

\* image.content_type: None, or a string in its parts.
ContentTypes ==
  {None, <<"image", "/", "png">>, <<"image">>, <<"text", "/", "plain">>,
   <<"application", "/", "image">>, <<>>}
Filenames == {<<"photo", ".", "png">>, <<"photo">>}

\* A faulty variant of the test: "image" anywhere in the content type.
IsImage_anywhere(content_type) == Contains(content_type, "image")

\* image.content_type.split("/")[0] == "image"
IsImage(content_type) == SplitFirst(content_type, "/") = <<"image">>

\* The identifiers drawn so far, and the next one.
UsedIds == {p.id[2] : p \in posts} \cup {k[1][2] : k \in objects}
FreshUuid == Uuid(Cardinality(UsedIds) + 1)

ObjectUrl(object_key) == <<"url", Endpoint, BUCKET, object_key>>

\* A faulty variant of the insert: the status literal in another case.
post_row_lowercase(post_id, cu, image_url) ==
  [id |-> post_id, user_id |-> cast_id(cu.body.id), category |-> None,
   image_url |-> image_url, status |-> "pending", created_at |-> now]

\* INSERT INTO posts(...) VALUES(..., 'PENDING', now())
post_row(post_id, cu, image_url) ==
  [id |-> post_id, user_id |-> cast_id(cu.body.id), category |-> None,
   image_url |-> image_url, status |-> "PENDING", created_at |-> now]

\* A faulty variant of the handler: the task is added before the insert, so
\* it stays scheduled when the insert fails.
create_post_file_eager(cu, image, s3_ok, db_ok) ==
  LET same == [posts |-> posts, objects |-> objects, tasks |-> tasks] IN
  IF cu.status # 200 THEN same @@ [resp |-> cu]
  ELSE IF image.content_type = None
    THEN same @@ [resp |-> HTTPException("post_file", 500, "Internal Server Error",
                                         NoHeaders, "AttributeError")]
  ELSE IF ~IsImage(image.content_type)
    THEN same @@ [resp |-> HTTPException("post_file", 400,
                             "Uploaded file must be an image", NoHeaders,
                             "not-image")]
  ELSE
    LET post_id == FreshUuid
        ext == IF Contains(image.filename, ".")
                 THEN SplitLast(image.filename, ".") ELSE <<"jpg">>
        object_key == <<post_id, ext>>
        object_url == ObjectUrl(object_key)
        task == [func |-> "trigger_kestra", args |-> <<post_id, object_url>>]
    IN IF ~s3_ok
         THEN same @@ [resp |-> HTTPException("post_file", 500,
                                  "Error uploading image", NoHeaders, "s3")]
       ELSE IF ~db_ok
         THEN [posts |-> posts, objects |-> objects \cup {object_key},
               tasks |-> tasks \cup {task},
               resp |-> HTTPException("post_file", 500, "DB error", NoHeaders, "db")]
       ELSE [posts |-> posts \cup {[id |-> post_id, user_id |-> cast_id(cu.body.id),
                                    category |-> None, image_url |-> object_url,
                                    status |-> "PENDING", created_at |-> now]},
             objects |-> objects \cup {object_key},
             tasks |-> tasks \cup {task},
             resp |-> Return("post_file",
                        [post_id |-> post_id, image_url |-> object_url,
                         status |-> "PENDING"])]

\* The handler.  s3_ok: the object-store write succeeds; db_ok: the insert
\* commits.  Returns the tables and task list after the request, and the
\* response.
create_post_file(cu, image, s3_ok, db_ok) ==
  LET same == [posts |-> posts, objects |-> objects, tasks |-> tasks] IN
  IF cu.status # 200 THEN same @@ [resp |-> cu]
  ELSE IF image.content_type = None
    \* None has no split: AttributeError, answered 500 by the framework
    THEN same @@ [resp |-> HTTPException("post_file", 500, "Internal Server Error",
                                         NoHeaders, "AttributeError")]
  ELSE IF ~IsImage(image.content_type)
    THEN same @@ [resp |-> HTTPException("post_file", 400,
                             "Uploaded file must be an image", NoHeaders,
                             "not-image")]
  ELSE
    LET post_id == FreshUuid
        ext == IF Contains(image.filename, ".")
                 THEN SplitLast(image.filename, ".") ELSE <<"jpg">>
        object_key == <<post_id, ext>>
        object_url == ObjectUrl(object_key)
    IN IF ~s3_ok
         THEN same @@ [resp |-> HTTPException("post_file", 500,
                                  "Error uploading image", NoHeaders, "s3")]
       ELSE IF ~db_ok
         THEN [posts |-> posts, objects |-> objects \cup {object_key},
               tasks |-> tasks,
               resp |-> HTTPException("post_file", 500, "DB error", NoHeaders, "db")]
       ELSE [posts |-> posts \cup {post_row(post_id, cu, object_url)},
             objects |-> objects \cup {object_key},
             tasks |-> tasks \cup {[func |-> "trigger_kestra",
                                     args |-> <<post_id, object_url>>]},
             resp |-> Return("post_file",
                        [post_id |-> post_id, image_url |-> object_url,
                         status |-> "PENDING"])]

UploadFiles == [content_type : ContentTypes, filename : Filenames]

CreatePostFile ==
  \E cu \in Credentials("post_file"), image \in UploadFiles,
     s3_ok \in BOOLEAN, db_ok \in BOOLEAN :
    LET o == create_post_file(cu, image, s3_ok, db_ok) IN
    /\ (o.posts # posts \/ o.objects # objects) => Cardinality(UsedIds) < MaxPosts
    /\ posts' = o.posts
    /\ objects' = o.objects
    /\ tasks' = o.tasks
    /\ resp' = o.resp
    /\ UNCHANGED <<users, votes, comments, now, trig, inflight>>

(***************************************************************************)
(* main.py: POST /api/upload-url and POST /api/post.                       *)
(***************************************************************************)
\* presign_ok: generate_presigned_post succeeds (else ClientError).
create_upload_url(cu, req, presign_ok) ==
  IF cu.status # 200 THEN cu
  ELSE
    LET ext == IF Contains(req.filename, ".")
                 THEN SplitLast(req.filename, ".") ELSE <<"jpg">>
        object_key == <<FreshUuid, ext>>
    IN IF ~presign_ok
         THEN HTTPException("upload-url", 500, "Failed to create upload url",
                            NoHeaders, "presign")
         ELSE Return("upload-url",
                [url |-> <<"url", Endpoint, BUCKET>>,
                 fields |-> [key |-> object_key, content_type |-> req.content_type],
                 object_url |-> ObjectUrl(object_key)])

UploadRequests == [filename : Filenames, content_type : {<<"image", "/", "jpeg">>}]

CreateUploadUrl ==
  \E cu \in Credentials("upload-url"), req \in UploadRequests, ok \in BOOLEAN :
    /\ resp' = create_upload_url(cu, req, ok)
    /\ UNCHANGED <<users, posts, votes, comments, objects, tasks, now, trig, inflight>>

\* payload.image_url: an object of the bucket, or a URL of another place (the
\* handler prints a warning for it and goes on).
ImageUrls ==
  {ObjectUrl(<<Uuid(0), <<"jpg">>>>), <<"url", "http://elsewhere", "pics", <<>>>>}

create_post(cu, payload, db_ok) ==
  IF cu.status # 200 THEN [posts |-> posts, resp |-> cu]
  ELSE
    LET post_id == FreshUuid IN
    IF ~db_ok
      THEN [posts |-> posts,
            resp |-> HTTPException("post", 500, "DB error", NoHeaders, "db")]
      ELSE [posts |-> posts \cup {post_row(post_id, cu, payload.image_url)},
            resp |-> Return("post",
                       [post_id |-> post_id, image_url |-> payload.image_url,
                        status |-> "PENDING"])]

PostCreate == [image_url : ImageUrls]

CreatePost ==
  \E cu \in Credentials("post"), payload \in PostCreate, db_ok \in BOOLEAN :
    LET o == create_post(cu, payload, db_ok) IN
    /\ o.posts # posts => Cardinality(UsedIds) < MaxPosts
    /\ posts' = o.posts
    /\ resp' = o.resp
    /\ UNCHANGED <<users, votes, comments, objects, tasks, now, trig, inflight>>

(***************************************************************************)
(* main.py: POST /api/posts/{post_id}/vote.  The table votes is a bag of   *)
(* rows: the handler's statements do not by themselves keep a (post, user) *)
(* pair to one row.                                                        *)
(***************************************************************************)
vote_row(p, u, v) == [post_id |-> p, user_id |-> u, vote |-> v]

\* The sub-bag of vs made of the rows in keep (a WHERE clause's selection).
Rows(vs, keep) == [r \in keep \cap DOMAIN vs |-> vs[r]]

\* A faulty variant of the delete: the removal is stored as a vote of 0.
delete_vote_store_zero(vs, p, u) ==
  Rows(vs, {r \in DOMAIN vs : ~(r.post_id = p /\ r.user_id = u)})
    (+) SetToBag({vote_row(p, u, 0)})

\* DELETE FROM votes WHERE post_id = :p AND user_id = :u
delete_vote(vs, p, u) ==
  LET Other(r) == ~(r.post_id = p /\ r.user_id = u) IN Rows(vs, {r \in DOMAIN vs : Other(r)})

\* UPDATE votes SET vote = :v WHERE post_id = :p AND user_id = :u; with rowcount
update_vote(vs, p, u, v) ==
  LET Mine(r) == r.post_id = p /\ r.user_id = u
      Other(r) == ~Mine(r)
      n == BagCardinality(Rows(vs, {r \in DOMAIN vs : Mine(r)}))
  IN [rowcount |-> n,
      votes |-> IF n = 0 THEN vs
                ELSE Rows(vs, {r \in DOMAIN vs : Other(r)}) (+) [r \in {vote_row(p, u, v)} |-> n]]

\* INSERT INTO votes (post_id, user_id, vote) VALUES (:p, :u, :v)
insert_vote(vs, p, u, v) == vs (+) SetToBag({vote_row(p, u, v)})

\* A faulty variant of the upsert: the insert runs whatever the update did.
upsert_vote_always_insert(vs, p, u, v) ==
  insert_vote(update_vote(vs, p, u, v).votes, p, u, v)

\* The upsert: try the update, insert when it touched no row.
upsert_vote(vs, p, u, v) ==
  LET updated == update_vote(vs, p, u, v) IN
  IF updated.rowcount = 0 THEN insert_vote(vs, p, u, v) ELSE updated.votes

\* The counts query: SUM(CASE ...) over the post's rows, and the scalar
\* subquery for the caller's vote, which fails on more than one row.
vote_counts(vs, p, u) ==
  LET Up(r) == r.post_id = p /\ r.vote = 1
      Down(r) == r.post_id = p /\ r.vote = -1
      Mine(r) == r.post_id = p /\ r.user_id = u
      mine == Rows(vs, {r \in DOMAIN vs : Mine(r)})
  IN [ok |-> BagCardinality(mine) <= 1,
      upvotes |-> BagCardinality(Rows(vs, {r \in DOMAIN vs : Up(r)})),
      downvotes |-> BagCardinality(Rows(vs, {r \in DOMAIN vs : Down(r)})),
      user_vote |-> IF BagCardinality(mine) = 1
                      THEN (CHOOSE r \in DOMAIN mine : TRUE).vote ELSE 0]

\* SELECT 1 FROM posts WHERE id = :id
post_exists(post_id) == \E p \in posts : p.id = post_id

\* "except Exception as e: raise HTTPException(status_code=500, ...)" around a
\* transaction: whatever was raised inside, an HTTPException of the handler
\* included, is answered 500; e is the response the raised exception stood for.
except_Exception(op, e) ==
  HTTPException(op, 500, "DB error", NoHeaders, e.cause)

\* A faulty variant of the default: a body without the field counts as +1.
payload_vote_default_up(payload) ==
  IF "vote" \in DOMAIN payload THEN payload["vote"] ELSE 1

\* payload.get("vote", 0)
payload_vote(payload) == IF "vote" \in DOMAIN payload THEN payload["vote"] ELSE 0

\* A faulty variant of the validation: every value passes.
valid_vote_any(v) == TRUE

\* v in (1, -1, 0)
valid_vote(v) == v \in {1, -1, 0}

\* The handler: the table votes after the request, and the response.
vote_post(vs, cu, post_id, payload) ==
  IF cu.status # 200 THEN [votes |-> vs, resp |-> cu]
  ELSE
    LET v == payload_vote(payload)
        u == cast_id(cu.body.id)
    IN IF ~valid_vote(v)
         THEN [votes |-> vs,
               resp |-> HTTPException("vote", 400, "Invalid vote value", NoHeaders,
                                      "invalid-vote")]
       ELSE IF ~post_exists(post_id)
         \* raised inside the try block: rolled back, then caught
         THEN [votes |-> vs,
               resp |-> except_Exception("vote",
                          HTTPException("vote", 404, "Post not found", NoHeaders,
                                        "post-not-found"))]
       ELSE
         LET written == IF v = 0 THEN delete_vote(vs, post_id, u)
                        ELSE upsert_vote(vs, post_id, u, v)
             row == vote_counts(written, post_id, u)
         IN IF ~row.ok
              THEN [votes |-> vs,
                    resp |-> except_Exception("vote",
                               HTTPException("vote", 500, "subquery", NoHeaders,
                                             "db"))]
              ELSE [votes |-> written,
                    resp |-> Return("vote",
                               [upvotes |-> row.upvotes, downvotes |-> row.downvotes,
                                user_vote |-> row.user_vote])]

\* The path parameter: the id of a post, or an id no post has.
PostIds == {p.id : p \in posts} \cup {Uuid(0)}
VoteValues == {1, -1, 0, 2}
VotePayloads == {[k \in {} |-> 0]} \cup {[k \in {"vote"} |-> v] : v \in VoteValues}

VotePost ==
  \E cu \in Credentials("vote"), post_id \in PostIds, payload \in VotePayloads :
    LET o == vote_post(votes, cu, post_id, payload) IN
    /\ votes' = o.votes
    \* a response with counts is kept with the post and the caller it is
    \* about, the body sent, and whether the caller had a row for the post
    /\ resp' = IF o.resp.status = 200
                 THEN o.resp @@ [post_id |-> post_id, caller |-> cu.body.id,
                                 vote |-> payload_vote(payload),
                                 payload |-> payload,
                                 had_row |->
                                   \E x \in DOMAIN votes :
                                     /\ x.post_id = post_id
                                     /\ x.user_id = cast_id(cu.body.id)]
                 ELSE o.resp
    /\ UNCHANGED <<users, posts, comments, objects, tasks, now, trig, inflight>>

(***************************************************************************)
(* main.py: POST /api/posts/{post_id}/vote, statement by statement, for    *)
(* requests that run at the same time.  Each request has its transaction   *)
(* ("with engine.begin() as conn"): its statements read the committed      *)
(* table and its own writes, its writes reach the table votes when it      *)
(* commits, and an exception inside the block rolls them back.  A request  *)
(* in flight is a record                                                   *)
(*   [pc, op, cu, post_id, v, ins, del]                                    *)
(* where ins is the bag of rows it has written and del the bag of          *)
(* committed rows it has updated or deleted, which it keeps locked: an     *)
(* UPDATE or DELETE of another request on such a row waits.                *)
(***************************************************************************)
InTransaction == {"exists", "write", "insert", "counts", "commit"}

\* The table votes as the statements of request r read it.
Seen(r) == (votes (-) r.del) (+) r.ins

\* The rows of vs for post p and user u.
RowsOf(vs, p, u) == Rows(vs, {x \in DOMAIN vs : x.post_id = p /\ x.user_id = u})

\* Another request in flight holds a lock on a row of (p, u).
Locked(i, p, u) ==
  \E j \in Requests \ {i} :
    /\ inflight[j].pc \in InTransaction
    /\ RowsOf(inflight[j].del, p, u) # EmptyBag

\* The request as it stands when its response has been sent; wrote is what
\* its statements had written by then.
Done(r, response) ==
  [pc |-> "done", op |-> r.op, v |-> r.v, status |-> response.status,
   wrote |-> r.ins]

\* A faulty variant of the rollback: the statements run so far stay written
\* (each statement committed on its own).
rollback_partial(r) ==
  IF r.op = "vote" THEN [votes |-> Seen(r), comments |-> comments]
  ELSE [votes |-> votes, comments |-> comments \cup r.ins]

\* An exception leaves "with engine.begin() as conn": the transaction of
\* request r is rolled back; the tables are as committed.
rollback(r) == [votes |-> votes, comments |-> comments]

\* The with block of request r ends without exception: its writes reach the
\* tables.
commit(r) ==
  IF r.op = "vote" THEN [votes |-> Seen(r), comments |-> comments]
  ELSE [votes |-> votes, comments |-> comments \cup r.ins]

\* The request arrives: the dependency, int(payload.get("vote", 0)), the
\* validation; then the transaction begins.
VoteBegin ==
  \E i \in Requests, cu \in Credentials("vote"), post_id \in PostIds,
     payload \in VotePayloads :
    LET v == payload_vote(payload)
        r == [pc |-> "exists", op |-> "vote", cu |-> cu, post_id |-> post_id,
              v |-> v, ins |-> EmptyBag, del |-> EmptyBag]
    IN /\ inflight[i].pc = "idle"
       /\ IF cu.status # 200
            THEN /\ inflight' = [inflight EXCEPT ![i] = Done(r, cu)]
                 /\ resp' = cu
          ELSE IF ~valid_vote(v)
            THEN LET e == HTTPException("vote", 400, "Invalid vote value",
                                        NoHeaders, "invalid-vote")
                 IN /\ inflight' = [inflight EXCEPT ![i] = Done(r, e)]
                    /\ resp' = e
          ELSE /\ inflight' = [inflight EXCEPT ![i] = r]
               /\ resp' = resp
       /\ UNCHANGED <<users, posts, votes, comments, objects, tasks, now, trig>>

\* SELECT 1 FROM posts WHERE id = :id; without a row the 404 is raised
\* inside the try block.
VoteSelectPost ==
  \E i \in Requests :
    LET r == inflight[i] IN
    /\ r.pc = "exists"
    /\ IF post_exists(r.post_id)
         THEN /\ inflight' = [inflight EXCEPT ![i].pc = "write"]
              /\ resp' = resp
         ELSE LET e == except_Exception("vote",
                         HTTPException("vote", 404, "Post not found", NoHeaders,
                                       "post-not-found"))
              IN /\ inflight' = [inflight EXCEPT ![i] = Done(r, e)]
                 /\ resp' = e
    /\ votes' = IF post_exists(r.post_id) THEN votes ELSE rollback(r).votes
    /\ UNCHANGED <<users, posts, comments, objects, tasks, now, trig>>

\* DELETE FROM votes WHERE post_id = :p AND user_id = :u
VoteDelete ==
  \E i \in Requests :
    LET r == inflight[i]
        u == cast_id(r.cu.body.id)
    IN /\ r.pc = "write"
       /\ r.v = 0
       /\ ~Locked(i, r.post_id, u)
       /\ inflight' = [inflight EXCEPT ![i].pc = "counts",
                                       ![i].del = RowsOf(votes, r.post_id, u)]
       /\ UNCHANGED <<users, posts, votes, comments, objects, tasks, now, resp,
                      trig>>

\* UPDATE votes SET vote = :v ... WHERE post_id = :p AND user_id = :u
VoteUpdate ==
  \E i \in Requests :
    LET r == inflight[i]
        u == cast_id(r.cu.body.id)
        mine == RowsOf(votes, r.post_id, u)
        updated == update_vote(mine, r.post_id, u, r.v)
    IN /\ r.pc = "write"
       /\ r.v # 0
       /\ ~Locked(i, r.post_id, u)
       /\ inflight' = [inflight EXCEPT
                         ![i].pc = IF updated.rowcount = 0 THEN "insert"
                                   ELSE "counts",
                         ![i].del = mine,
                         ![i].ins = IF updated.rowcount = 0 THEN EmptyBag
                                    ELSE updated.votes]
       /\ UNCHANGED <<users, posts, votes, comments, objects, tasks, now, resp,
                      trig>>

\* if updated.rowcount == 0: INSERT INTO votes (post_id, user_id, vote) ...
VoteInsert ==
  \E i \in Requests :
    LET r == inflight[i]
        u == cast_id(r.cu.body.id)
    IN /\ r.pc = "insert"
       /\ inflight' = [inflight EXCEPT
                         ![i].pc = "counts",
                         ![i].ins = insert_vote(r.ins, r.post_id, u, r.v)]
       /\ UNCHANGED <<users, posts, votes, comments, objects, tasks, now, resp,
                      trig>>

\* The counts query; its scalar subquery raises on more than one row.
VoteSelectCounts ==
  \E i \in Requests :
    LET r == inflight[i]
        row == vote_counts(Seen(r), r.post_id, cast_id(r.cu.body.id))
    IN /\ r.pc = "counts"
       /\ IF row.ok
            THEN /\ inflight' = [inflight EXCEPT ![i] =
                                   [pc |-> "commit", row |-> row] @@ r]
                 /\ resp' = resp
            ELSE LET e == except_Exception("vote",
                            HTTPException("vote", 500, "subquery", NoHeaders,
                                          "db"))
                 IN /\ inflight' = [inflight EXCEPT ![i] = Done(r, e)]
                    /\ resp' = e
       /\ votes' = IF row.ok THEN votes ELSE rollback(r).votes
       /\ UNCHANGED <<users, posts, comments, objects, tasks, now, trig>>

\* The with block ends: the transaction commits and the handler returns.
VoteCommit ==
  \E i \in Requests :
    LET r == inflight[i]
        ok == Return("vote", [upvotes |-> r.row.upvotes,
                              downvotes |-> r.row.downvotes,
                              user_vote |-> r.row.user_vote])
    IN /\ r.pc = "commit"
       /\ r.op = "vote"
       /\ votes' = commit(r).votes
       /\ inflight' = [inflight EXCEPT ![i] = Done(r, ok)]
       /\ resp' = ok
       /\ UNCHANGED <<users, posts, comments, objects, tasks, now, trig>>

\* A statement of the transaction, or its commit, fails in the store: the
\* exception leaves the with block, which rolls back, and is answered 500.
VoteFail ==
  \E i \in Requests :
    LET r == inflight[i]
        e == except_Exception("vote",
               HTTPException("vote", 500, "statement", NoHeaders, "db"))
    IN /\ r.pc \in InTransaction
       /\ r.op = "vote"
       /\ votes' = rollback(r).votes
       /\ inflight' = [inflight EXCEPT ![i] = Done(r, e)]
       /\ resp' = e
       /\ UNCHANGED <<users, posts, comments, objects, tasks, now, trig>>

(***************************************************************************)
(* main.py: GET /api/posts.                                                *)
(***************************************************************************)
MaxPage == 2        \* query parameter page is drawn from 1..MaxPage
MaxLimit == 2       \* query parameter limit is drawn from 1..MaxLimit

\* The orders ORDER BY created_at DESC may return the rows of set S in: rows of
\* equal created_at come in any order.
OrderedDesc(S) ==
  LET n == Cardinality(S) IN
  {f \in [1..n -> S] :
     /\ \A i, j \in 1..n : i # j => f[i] # f[j]
     /\ \A i, j \in 1..n : i < j => f[i].created_at >= f[j].created_at}

\* LIMIT :limit OFFSET :offset of a sequence of rows
LimitOffset(rows, limit, offset) ==
  SubSeq(rows, offset + 1, IF offset + limit < Len(rows) THEN offset + limit
                           ELSE Len(rows))

\* One item of the listing: the post joined with its user, its vote sums, the
\* caller's vote and its comment count.
post_item(p, uid) ==
  LET owner == {r \in users : r.id = p.user_id}
      counts == vote_counts(votes, p.id, uid)
  IN [id |-> p.id, image_url |-> p.image_url, created_at |-> p.created_at,
      severity_score |-> None, authenticity_score |-> None,
      composite_score |-> None,
      user |-> IF owner = {} THEN [id |-> None, username |-> None]
               ELSE LET r == CHOOSE r \in owner : TRUE IN
                    [id |-> Str(r.id), username |-> r.username],
      upvotes |-> counts.upvotes, downvotes |-> counts.downvotes,
      user_vote |-> counts.user_vote,
      comments_count |-> Cardinality({c \in comments : c.post_id = p.id})]

\* The handler; rows is the order the query returned the posts in.
list_posts(cu, page, limit, rows, db_ok) ==
  IF cu.status # 200 THEN cu
  ELSE IF ~db_ok THEN HTTPException("posts", 500, "DB error", NoHeaders, "db")
  ELSE
    LET offset == (page - 1) * limit
        uid == cast_id(cu.body.id)
        shown == LimitOffset(rows, limit, offset)
    IN Return("posts",
         [items |-> [i \in 1..Len(shown) |-> post_item(shown[i], uid)],
          total |-> Cardinality(posts), page |-> page, limit |-> limit])

ListPosts ==
  \E cu \in Credentials("posts"), page \in 1..MaxPage, limit \in 1..MaxLimit,
     rows \in OrderedDesc(posts), db_ok \in BOOLEAN :
    /\ resp' = list_posts(cu, page, limit, rows, db_ok)
    /\ UNCHANGED <<users, posts, votes, comments, objects, tasks, now, trig, inflight>>

(***************************************************************************)
(* main.py: GET and POST /api/posts/{post_id}/comments.  A content is a    *)
(* string given as the sequence of its characters.                         *)
(***************************************************************************)
comment_item(c) ==
  LET r == CHOOSE r \in users : r.id = c.user_id IN
  [id |-> c.id, content |-> c.content, created_at |-> c.created_at,
   user |-> [id |-> Str(r.id), username |-> r.username]]

\* A faulty variant of the listing: the route does not depend on the caller.
list_comments_public(cu, post_id, page, limit, rows, db_ok) ==
  IF ~db_ok THEN HTTPException("comments", 500, "DB error", NoHeaders, "db")
  ELSE
    LET offset == (page - 1) * limit
        shown == LimitOffset(rows, limit, offset)
    IN Return("comments",
         [items |-> [i \in 1..Len(shown) |-> comment_item(shown[i])],
          page |-> page, limit |-> limit])

list_comments(cu, post_id, page, limit, rows, db_ok) ==
  IF cu.status # 200 THEN cu
  ELSE IF ~db_ok THEN HTTPException("comments", 500, "DB error", NoHeaders, "db")
  ELSE
    LET offset == (page - 1) * limit
        shown == LimitOffset(rows, limit, offset)
    IN Return("comments",
         [items |-> [i \in 1..Len(shown) |-> comment_item(shown[i])],
          page |-> page, limit |-> limit])

ListComments ==
  \E cu \in Credentials("comments"), post_id \in PostIds, page \in 1..MaxPage,
     limit \in 1..MaxLimit, db_ok \in BOOLEAN :
    \E rows \in OrderedDesc({c \in comments : c.post_id = post_id
                                 /\ \E r \in users : r.id = c.user_id}) :
      /\ resp' = list_comments(cu, post_id, page, limit, rows, db_ok)
      /\ UNCHANGED <<users, posts, votes, comments, objects, tasks, now, trig, inflight>>

\* content.strip(): leading and trailing whitespace removed
Whitespace == {" ", "\t", "\n"}
RECURSIVE lstrip(_)
lstrip(s) == IF s # <<>> /\ Head(s) \in Whitespace THEN lstrip(Tail(s)) ELSE s
RECURSIVE rstrip(_)
rstrip(s) ==
  IF s # <<>> /\ s[Len(s)] \in Whitespace
    THEN rstrip(SubSeq(s, 1, Len(s) - 1)) ELSE s

\* A faulty variant of strip: only blanks at the start are removed.
strip_leading_blank(s) == IF s # <<>> /\ Head(s) = " " THEN Tail(s) ELSE s

strip(s) == rstrip(lstrip(s))

\* The handler: the table comments after the request, and the response.
\* reread_ok: the SELECT of the new row succeeds.
create_comment(cs, cu, post_id, payload, reread_ok) ==
  IF cu.status # 200 THEN [comments |-> cs, resp |-> cu]
  ELSE IF payload.content = <<>> \/ strip(payload.content) = <<>>
    THEN [comments |-> cs,
          resp |-> HTTPException("comment", 400, "Comment cannot be empty",
                                 NoHeaders, "empty")]
  ELSE
    LET comment_id == Uuid(Cardinality(cs) + 1) IN
    IF ~post_exists(post_id)
      \* raised inside the try block: rolled back, then caught
      THEN [comments |-> cs,
            resp |-> except_Exception("comment",
                       HTTPException("comment", 404, "Post not found", NoHeaders,
                                     "post-not-found"))]
    ELSE
      LET c == [id |-> comment_id, post_id |-> post_id,
                user_id |-> cast_id(cu.body.id), content |-> payload.content,
                created_at |-> now]
          \* SELECT ... FROM comments c JOIN users u ... WHERE c.id = :cid
          r == {x \in cs \cup {c} :
                  x.id = comment_id /\ \E ur \in users : ur.id = x.user_id}
      IN IF ~reread_ok
           THEN [comments |-> cs,
                 resp |-> except_Exception("comment",
                            HTTPException("comment", 500, "select", NoHeaders,
                                          "db"))]
         ELSE IF r = {}
           \* fetchone() is None: r.id raises inside the try block
           THEN [comments |-> cs,
                 resp |-> except_Exception("comment",
                            HTTPException("comment", 500, "AttributeError",
                                          NoHeaders, "AttributeError"))]
           ELSE [comments |-> cs \cup {c},
                 resp |-> Return("comment",
                            comment_item(CHOOSE x \in r : TRUE))]

Contents == {<<>>, <<" ", "\t">>, <<"a">>, <<" ", "a", " ">>}
CommentCreate == [content : Contents]

CreateComment ==
  \E cu \in Credentials("comment"), post_id \in PostIds,
     payload \in CommentCreate, reread_ok \in BOOLEAN :
    LET o == create_comment(comments, cu, post_id, payload, reread_ok) IN
    /\ o.comments # comments => Cardinality(comments) < MaxComments
    /\ comments' = o.comments
    /\ resp' = o.resp
    /\ UNCHANGED <<users, posts, votes, objects, tasks, now, trig, inflight>>

(***************************************************************************)
(* main.py: create_comment statement by statement, as one transaction of   *)
(* "with engine.begin() as conn" inside try / except Exception.            *)
(***************************************************************************)
InComment == {"c_exists", "c_insert", "c_reread", "c_commit"}

\* The request as it stands when its response has been sent.
CommentDone(r, response) ==
  [pc |-> "done", op |-> "comment", status |-> response.status,
   wrote |-> r.ins]

\* The request arrives: the dependency, the check of payload.content, the
\* uuid; then the transaction begins.
CommentBegin ==
  \E i \in Requests, cu \in Credentials("comment"), post_id \in PostIds,
     payload \in CommentCreate :
    LET r == [pc |-> "c_exists", op |-> "comment", cu |-> cu,
              post_id |-> post_id, content |-> payload.content,
              comment_id |-> Uuid(i), ins |-> {}]
    IN /\ inflight[i].pc = "idle"
       /\ IF cu.status # 200
            THEN /\ inflight' = [inflight EXCEPT ![i] = CommentDone(r, cu)]
                 /\ resp' = cu
          ELSE IF payload.content = <<>> \/ strip(payload.content) = <<>>
            THEN LET e == HTTPException("comment", 400,
                            "Comment cannot be empty", NoHeaders, "empty")
                 IN /\ inflight' = [inflight EXCEPT ![i] = CommentDone(r, e)]
                    /\ resp' = e
          ELSE /\ inflight' = [inflight EXCEPT ![i] = r]
               /\ resp' = resp
       /\ UNCHANGED <<users, posts, votes, comments, objects, tasks, now, trig>>

\* SELECT 1 FROM posts WHERE id = :id; without a row the 404 is raised
\* inside the try block.
CommentSelectPost ==
  \E i \in Requests :
    LET r == inflight[i] IN
    /\ r.pc = "c_exists"
    /\ IF post_exists(r.post_id)
         THEN /\ inflight' = [inflight EXCEPT ![i].pc = "c_insert"]
              /\ resp' = resp
              /\ comments' = comments
         ELSE LET e == except_Exception("comment",
                         HTTPException("comment", 404, "Post not found",
                                       NoHeaders, "post-not-found"))
              IN /\ inflight' = [inflight EXCEPT ![i] = CommentDone(r, e)]
                 /\ resp' = e
                 /\ comments' = rollback(r).comments
    /\ UNCHANGED <<users, posts, votes, objects, tasks, now, trig>>

\* INSERT INTO comments (id, post_id, user_id, content, created_at)
CommentInsert ==
  \E i \in Requests :
    LET r == inflight[i] IN
    /\ r.pc = "c_insert"
    /\ LET c == [id |-> r.comment_id, post_id |-> r.post_id,
                 user_id |-> cast_id(r.cu.body.id), content |-> r.content,
                 created_at |-> now]
       IN inflight' = [inflight EXCEPT ![i].pc = "c_reread",
                                       ![i].ins = {c}]
    /\ UNCHANGED <<users, posts, votes, comments, objects, tasks, now, trig,
                   resp>>

\* SELECT ... FROM comments c JOIN users u ... WHERE c.id = :cid, then the
\* dict created; fetchone() of no row is None and r.id raises.
CommentReread ==
  \E i \in Requests :
    LET r == inflight[i] IN
    /\ r.pc = "c_reread"
    /\ LET rows == {x \in comments \cup r.ins :
                      x.id = r.comment_id /\ \E ur \in users : ur.id = x.user_id}
       IN IF rows # {}
            THEN /\ inflight' =
                      [inflight EXCEPT ![i] =
                         [pc |-> "c_commit",
                          created |-> comment_item(CHOOSE x \in rows : TRUE)]
                         @@ r]
                 /\ resp' = resp
                 /\ comments' = comments
            ELSE LET e == except_Exception("comment",
                            HTTPException("comment", 500, "AttributeError",
                                          NoHeaders, "AttributeError"))
                 IN /\ inflight' = [inflight EXCEPT ![i] = CommentDone(r, e)]
                    /\ resp' = e
                    /\ comments' = rollback(r).comments
    /\ UNCHANGED <<users, posts, votes, objects, tasks, now, trig>>

\* The with block ends: the transaction commits; return created.
CommentCommit ==
  \E i \in Requests :
    LET r == inflight[i]
        ok == Return("comment", r.created)
    IN /\ r.pc = "c_commit"
       /\ comments' = commit(r).comments
       /\ inflight' = [inflight EXCEPT ![i] = CommentDone(r, ok)]
       /\ resp' = ok
       /\ UNCHANGED <<users, posts, votes, objects, tasks, now, trig>>

\* A statement of the transaction, or its commit, fails in the store: the
\* exception leaves the with block, which rolls back, and is answered 500.
CommentFail ==
  \E i \in Requests :
    LET r == inflight[i]
        e == except_Exception("comment",
               HTTPException("comment", 500, "statement", NoHeaders, "db"))
    IN /\ r.pc \in InComment
       /\ comments' = rollback(r).comments
       /\ inflight' = [inflight EXCEPT ![i] = CommentDone(r, e)]
       /\ resp' = e
       /\ UNCHANGED <<users, posts, votes, objects, tasks, now, trig>>

(***************************************************************************)
(* The API over a store that holds two registered users.                   *)
(***************************************************************************)
SeedUsers ==
  {[id |-> 1, username |-> "alice", email |-> "a@x.io",
    hashed_password |-> get_password_hash("password1")],
   [id |-> 2, username |-> "bob", email |-> "b@x.io",
    hashed_password |-> get_password_hash("password2")]}

InitApi ==
  /\ users = SeedUsers
  /\ posts = {}
  /\ votes = EmptyBag
  /\ comments = {}
  /\ objects = {}
  /\ tasks = {}
  /\ now = 0
  /\ resp = NoResponse
  /\ trig = NoTrigger
  /\ inflight = NoRequests

Next ==
  \/ CreatePostFile
  \/ CreateUploadUrl
  \/ CreatePost
  \/ ListPosts
  \/ VotePost
  \/ ListComments
  \/ CreateComment
  \/ RunTask

Spec == InitApi /\ [][Next]_vars

\* Posts and votes alone.
NextVote == CreatePost \/ VotePost
SpecVote == InitApi /\ [][NextVote]_vars

\* Posts and comments alone.
NextComment == CreatePost \/ CreateComment \/ ListComments
SpecComment == InitApi /\ [][NextComment]_vars

\* Votes whose requests run at the same time.
NextVoteRace ==
  \/ CreatePost
  \/ VoteBegin
  \/ VoteSelectPost
  \/ VoteDelete
  \/ VoteUpdate
  \/ VoteInsert
  \/ VoteSelectCounts
  \/ VoteCommit
  \/ VoteFail
SpecVoteRace == InitApi /\ [][NextVoteRace]_vars

\* Vote requests and create-comment requests, statement by statement.
NextTxn ==
  \/ CreatePost
  \/ VoteBegin
  \/ VoteSelectPost
  \/ VoteDelete
  \/ VoteUpdate
  \/ VoteInsert
  \/ VoteSelectCounts
  \/ VoteCommit
  \/ VoteFail
  \/ CommentBegin
  \/ CommentSelectPost
  \/ CommentInsert
  \/ CommentReread
  \/ CommentCommit
  \/ CommentFail
SpecTxn == InitApi /\ [][NextTxn]_vars

\* The creation of posts, by either path, with the background task and the
\* listing.
NextUpload == CreatePostFile \/ CreateUploadUrl \/ CreatePost \/ ListPosts \/ RunTask
SpecUpload == InitApi /\ [][NextUpload]_vars

(***************************************************************************)
(* The listing over the stores that up to MaxListed creations leave: the   *)
(* k-th post drawn has id Uuid(k), and created_at, the clock at its        *)
(* insert, never decreases from one creation to the next (two creations    *)
(* may read the same clock value).                                         *)
(***************************************************************************)
MaxListed == 3      \* the most posts a listed store holds

CreationTimes(n) ==
  {t \in [1..n -> 0..MaxTicks] : \A i, j \in 1..n : i < j => t[i] <= t[j]}

ListedStores ==
  LET cu == CHOOSE c \in Credentials("post") : c.status = 200
      url == CHOOSE u \in ImageUrls : TRUE
  IN UNION {{{[post_row(Uuid(i), cu, url) EXCEPT !.created_at = t[i]] : i \in 1..n}
               : t \in CreationTimes(n)} : n \in 0..MaxListed}

InitList ==
  /\ users = SeedUsers
  /\ now = MaxTicks
  /\ posts \in ListedStores
  /\ votes = EmptyBag
  /\ comments = {}
  /\ objects = {}
  /\ tasks = {}
  /\ resp = NoResponse
  /\ trig = NoTrigger
  /\ inflight = NoRequests

NextList == ListPosts
SpecList == InitList /\ [][NextList]_vars

(***************************************************************************)
(* The flow from an empty store: register, log in, ask for an upload URL,  *)
(* register the post, list.                                                *)
(***************************************************************************)
NextFlow == Register \/ Login \/ CreateUploadUrl \/ CreatePost \/ ListPosts
SpecFlow == Init /\ [][NextFlow]_vars

(***************************************************************************)
(* Properties of registration, login and token resolution (SpecAuth).      *)
(***************************************************************************)

\* C5: in every state, a Register whose username or whose email some user row
\* has is answered 400 "Username or email already registered" and leaves the
\* table users as it is; a Register whose username and email are both unused
\* adds exactly one row and returns that row's id, username and email.
C5_RegisterConflict ==
  \A user \in UserCreate :
    LET o == register(user)
        taken == \E r \in users : r.username = user.username \/ r.email = user.email
    IN /\ taken =>
            /\ o.resp.status = 400
            /\ o.resp.detail = "Username or email already registered"
            /\ o.users = users
       /\ ~taken =>
            /\ Cardinality(o.users \ users) = 1
            /\ users \subseteq o.users
            /\ \A row \in o.users \ users :
                 /\ row.username = user.username
                 /\ row.email = user.email
                 /\ o.resp.status = 200
                 /\ o.resp.body = [id |-> Str(row.id), username |-> user.username,
                                   email |-> user.email]

\* C5 witness: a Register was rejected for its email alone (the username free).
C5_Witness ==
  /\ resp.op = "register"
  /\ resp.status = 400
  /\ \E r \in users : r.email = resp.request.email
  /\ \A r \in users : r.username # resp.request.username

\* The four conditions of acceptance of token t, expiry by the given test.
TokenConditions(t, notExpired) ==
  /\ t.wf
  /\ t.sig = HS256(SECRET_KEY, t.claims)
  /\ notExpired
  /\ t.claims.sub # None
  /\ \E u \in users : Str(u.id) = t.claims.sub

\* The outcome of resolving token t is the one the conditions call for.
ResolvesAs(t, accept) ==
  LET r == get_current_user("resolve", t) IN
  /\ (r.status = 200) <=> accept
  /\ accept => r.body.id = t.claims.sub
  /\ ~accept => r.status = 401 /\ r.headers = "WWW-Authenticate: Bearer"

\* C6 (amended): a presented token is accepted exactly when its signature
\* verifies under the secret, the clock is not after issued-at + lifetime, it
\* has a subject, and the subject is the id of a user row; the id returned is
\* the subject; every other token is answered 401 with the Bearer challenge.
\* The token of the last successful Login is among the tokens so judged.
C6_ResolveAmended ==
  /\ \A t \in PresentedTokens :
       ResolvesAs(t, TokenConditions(t, now <= t.claims.iat + Lifetime))
  /\ (resp.op = "login" /\ resp.status = 200) =>
       LET t == resp.body.access_token IN
       /\ ResolvesAs(t, now <= t.claims.iat + Lifetime)
       /\ \E u \in users : Str(u.id) = t.claims.sub

\* C6 as claimed: not expired means the clock is before issued-at + lifetime.
C6_ResolveOriginal ==
  \A t \in PresentedTokens :
    ResolvesAs(t, TokenConditions(t, now < t.claims.iat + Lifetime))

\* C6 witness: a token was accepted at the very second of its expiry.
C6_Witness ==
  /\ resp.op = "resolve"
  /\ resp.result.status = 200
  /\ resp.at = resp.token.claims.iat + Lifetime
  /\ resp.at = now

\* The response of a failed login, as a client sees it.
LoginFailure ==
  [status |-> 400, detail |-> "Incorrect username or password",
   headers |-> NoHeaders, body |-> NoBody]

\* C7: a Login that fails, for an unknown username or for a wrong password,
\* answers the same status and detail with no token, and changes no user row.
C7_LoginIndistinguishable ==
  [][(resp'.op = "login" /\ resp'.cause \in {"unknown-user", "wrong-password"})
       => (Observable(resp') = LoginFailure /\ users' = users)]_vars

\* C7 witness: a Login for a registered user was refused for its password.
C7_Witness ==
  /\ resp.op = "login"
  /\ resp.cause = "wrong-password"
  /\ users # {}

(***************************************************************************)
(* Properties of the vote handler (SpecVote).                              *)
(***************************************************************************)
Callers(op) == {cu \in Credentials(op) : cu.status = 200}
Refused(op) == {cu \in Credentials(op) : cu.status # 200}
UserIds == {r.id : r \in users}

\* The users whose row for post p in table vs has vote v.
Voters(vs, p, v) ==
  {u \in UserIds : \E r \in DOMAIN vs : r.post_id = p /\ r.user_id = u /\ r.vote = v}

\* body reports the votes of table vs on post p as caller u stands to them.
CountsMatch(vs, p, u, body) ==
  /\ body.upvotes = Cardinality(Voters(vs, p, 1))
  /\ body.downvotes = Cardinality(Voters(vs, p, -1))
  /\ body.user_vote = IF u \in Voters(vs, p, 1) THEN 1
                      ELSE IF u \in Voters(vs, p, -1) THEN -1 ELSE 0

Counts(up, down, mine) == [upvotes |-> up, downvotes |-> down, user_vote |-> mine]
VoteBody(v) == [k \in {"vote"} |-> v]

\* C1: a vote of +1, -1 or 0 on an existing post is answered with the number
\* of users whose row for the post is +1, the number whose row is -1, and the
\* caller's own stored vote (0 without a row); the last such response agrees
\* with the table; and on a post without votes, +1 then -1 then 0 by one user
\* are answered (1,0,1), (0,1,-1), (0,0,0) and leave no row of that user.
C1_VoteCounts ==
  /\ \A cu \in Callers("vote"), p \in posts, v \in {1, -1, 0} :
       LET o == vote_post(votes, cu, p.id, VoteBody(v)) IN
       /\ o.resp.status = 200
       /\ CountsMatch(o.votes, p.id, cast_id(cu.body.id), o.resp.body)
       /\ o.resp.body.user_vote = v
  /\ (resp.op = "vote" /\ resp.status = 200) =>
       CountsMatch(votes, resp.post_id, cast_id(resp.caller),
                   [upvotes |-> resp.body.upvotes, downvotes |-> resp.body.downvotes,
                    user_vote |-> resp.body.user_vote])
  /\ \A cu \in Callers("vote"), p \in posts :
       (\A r \in DOMAIN votes : r.post_id # p.id) =>
         LET o1 == vote_post(votes, cu, p.id, VoteBody(1))
             o2 == vote_post(o1.votes, cu, p.id, VoteBody(-1))
             o3 == vote_post(o2.votes, cu, p.id, VoteBody(0))
         IN /\ o1.resp.body = Counts(1, 0, 1)
            /\ o2.resp.body = Counts(0, 1, -1)
            /\ o3.resp.body = Counts(0, 0, 0)
            /\ \A r \in DOMAIN o3.votes :
                 ~(r.post_id = p.id /\ r.user_id = cast_id(cu.body.id))

\* C1 witness: a vote was answered with one upvote and one downvote, the
\* table holding the votes of two users.
C1_Witness ==
  /\ resp.op = "vote"
  /\ resp.status = 200
  /\ resp.body.upvotes = 1
  /\ resp.body.downvotes = 1
  /\ BagCardinality(votes) = 2

\* C2: a vote of a valid value on a post id no post has is answered 404
\* "Post not found" and leaves the table votes as it is.
C2_VoteNotFound ==
  [][(resp' # resp /\ resp'.op = "vote" /\ resp'.cause = "post-not-found")
       => (resp'.status = 404 /\ resp'.detail = "Post not found"
           /\ votes' = votes)]_vars

\* C4: a vote whose value is not +1, -1 or 0 is answered 400 and leaves the
\* table votes as it is, whether the post exists or not.
C4_InvalidVote ==
  /\ \A cu \in Callers("vote"), post_id \in PostIds, v \in VoteValues \ {1, -1, 0} :
       LET o == vote_post(votes, cu, post_id, VoteBody(v)) IN
       /\ o.resp.status = 400
       /\ o.votes = votes
  /\ \A r \in DOMAIN votes : r.vote \in {1, -1}
  /\ (resp.op = "vote" /\ resp.cause = "invalid-vote") => resp.status = 400

\* C4 witness: a vote of an invalid value was refused while votes are stored.
C4_Witness ==
  /\ resp.op = "vote"
  /\ resp.cause = "invalid-vote"
  /\ votes # EmptyBag

(***************************************************************************)
(* Properties of the comment handlers (SpecComment).                       *)
(***************************************************************************)

\* C3: a comment of non-blank content on a post id no post has is answered
\* 404 "Post not found" and adds no comment row.
C3_CommentNotFound ==
  [][(resp' # resp /\ resp'.op = "comment" /\ resp'.cause = "post-not-found")
       => (resp'.status = 404 /\ resp'.detail = "Post not found"
           /\ comments' = comments)]_vars

\* Content that is empty or made of whitespace only.
Blank(content) == \A i \in 1..Len(content) : content[i] \in Whitespace

\* C11: a comment on an existing post by an authenticated caller, the store
\* answering: blank content is answered 400 and adds no row; any other content
\* adds exactly one row, of that post, that caller and that content, and the
\* answer carries the content as submitted and the caller's id and username.
C11_CreateComment ==
  \A cu \in Callers("comment"), p \in posts, payload \in CommentCreate :
    LET o == create_comment(comments, cu, p.id, payload, TRUE)
        added == o.comments \ comments
    IN /\ comments \subseteq o.comments
       /\ Blank(payload.content) =>
            /\ o.resp.status = 400
            /\ o.resp.detail = "Comment cannot be empty"
            /\ added = {}
       /\ ~Blank(payload.content) =>
            /\ o.resp.status = 200
            /\ Cardinality(added) = 1
            /\ \A c \in added :
                 /\ c.post_id = p.id
                 /\ Str(c.user_id) = cu.body.id
                 /\ c.content = payload.content
                 /\ o.resp.body.id = c.id
            /\ o.resp.body.content = payload.content
            /\ o.resp.body.user.id = cu.body.id
            /\ o.resp.body.user.username = cu.body.username

\* C11 witness: a comment with blanks around its text was created and
\* answered untrimmed.
C11_Witness ==
  /\ resp.op = "comment"
  /\ resp.status = 200
  /\ resp.body.content = <<" ", "a", " ">>
  /\ \E c \in comments : c.id = resp.body.id /\ c.content = resp.body.content

(***************************************************************************)
(* Properties of the upload handler and the trigger (SpecUpload).          *)
(***************************************************************************)

\* The primary type of a content type: what stands before its first "/".
RECURSIVE PrimaryType(_)
PrimaryType(ct) ==
  IF ct = <<>> THEN <<>>
  ELSE IF ct[1] = "/" THEN <<>>
  ELSE <<ct[1]>> \o PrimaryType(SubSeq(ct, 2, Len(ct)))

\* C9: a server-proxy upload of a file whose content type has a primary type
\* other than "image" is answered 400, and the object store, the table posts
\* and the background tasks are as before, whatever the stores would do.
C9_NonImageRejected ==
  \A cu \in Callers("post_file"), image \in UploadFiles,
     s3_ok \in BOOLEAN, db_ok \in BOOLEAN :
    (image.content_type # None /\ PrimaryType(image.content_type) # <<"image">>) =>
      LET o == create_post_file(cu, image, s3_ok, db_ok) IN
      /\ o.resp.status = 400
      /\ o.objects = objects
      /\ o.posts = posts
      /\ o.tasks = tasks

\* C9 witness: a non-image upload was refused and nothing is stored.
C9_Witness ==
  /\ resp.op = "post_file"
  /\ resp.cause = "not-image"
  /\ objects = {} /\ posts = {} /\ tasks = {}

\* The timeouts a trigger may run with: those of the tasks, and the default.
TaskTimeouts ==
  {PyInt(KestraDefaultTimeout)} \cup {t.args[2] : t \in {x \in tasks : Len(x.args) >= 2}}

\* C10: the trigger never raises: whatever the call to the engine does and
\* whatever timeout it runs with it returns, with no result unless the engine
\* answered; and a run of it changes neither the response of the request
\* that scheduled it nor the table posts.
C10_TriggerIsolated ==
  /\ [](/\ \A p \in PostIds, timeout \in TaskTimeouts, net \in NetOutcomes :
            LET out == trigger_kestra(p, timeout, net) IN
            /\ ~out.raised
            /\ net # "ok" => out.result = None
         /\ ~trig.raised)
  /\ [][(trig' # trig \/ (tasks' # tasks /\ tasks' \subseteq tasks))
          => (posts' = posts /\ resp' = resp)]_vars

\* C10 witness: the trigger of a post ran without a result, and the response
\* of the upload that scheduled it stands.
C10_Witness ==
  /\ trig.post_id # None
  /\ trig.result = None
  /\ resp.op = "post_file"
  /\ resp.status = 200
  /\ resp.body.post_id = trig.post_id
  /\ \E p \in posts : p.id = trig.post_id

(***************************************************************************)
(* Properties of the listing (SpecList).                                   *)
(***************************************************************************)
Min(a, b) == IF a < b THEN a ELSE b
Max(a, b) == IF a > b THEN a ELSE b

\* The ids of the items of a listing response.
ItemIds(r) == {r.body.items[i].id : i \in 1..Len(r.body.items)}

\* The pages 1..n of limit L as caller cu gets them, page k from a query
\* that returned the rows in order q[k]: sizes, order, total, no overlap,
\* and every post on one of the pages.
Paginated(cu, L, q) ==
  LET N == Cardinality(posts)
      page(k) == list_posts(cu, k, L, q[k], TRUE)
  IN /\ \A k \in DOMAIN q :
          LET items == page(k).body.items IN
          /\ page(k).status = 200
          /\ Len(items) = Min(L, Max(0, N - (k - 1) * L))
          /\ \A i, j \in 1..Len(items) :
               i < j => items[i].created_at >= items[j].created_at
          /\ Cardinality(ItemIds(page(k))) = Len(items)
          /\ page(k).body.total = N
     /\ \A k1, k2 \in DOMAIN q :
          k1 # k2 => ItemIds(page(k1)) \cap ItemIds(page(k2)) = {}
     /\ UNION {ItemIds(page(k)) : k \in DOMAIN q} = {p.id : p \in posts}

\* C12: for a store of N posts and a limit L, the pages 1..N+1, each listed
\* by a request of its own with no write in between, hold
\* min(L, max(0, N - (k-1)L)) items newest first, share no item, together
\* hold every post, and each reports total N.
C12_Pagination ==
  \A cu \in Callers("posts"), L \in 1..MaxLimit :
    \A q \in [1..(Cardinality(posts) + 1) -> OrderedDesc(posts)] :
      Paginated(cu, L, q)

(***************************************************************************)
(* Properties of the whole API (Spec).                                     *)
(***************************************************************************)

\* C8: every protected handler answers a request whose token does not resolve
\* (or that has none) with 401, whatever else the request holds, and leaves
\* users, posts, votes, comments, the object store and the tasks as they are.
C8_ProtectedRoutes ==
  /\ \A a \in Authorizations :
       (a = <<>> \/ ~TokenConditions(a[1], ~jwt_expired(a[1].claims, now)))
         => Depends_get_current_user("any", a).status = 401
  /\ \A cu \in Refused("post_file"), image \in UploadFiles,
        s3_ok \in BOOLEAN, db_ok \in BOOLEAN :
       LET o == create_post_file(cu, image, s3_ok, db_ok) IN
       /\ o.resp.status = 401
       /\ o.posts = posts /\ o.objects = objects /\ o.tasks = tasks
  /\ \A cu \in Refused("upload-url"), req \in UploadRequests, ok \in BOOLEAN :
       create_upload_url(cu, req, ok).status = 401
  /\ \A cu \in Refused("post"), payload \in PostCreate, db_ok \in BOOLEAN :
       LET o == create_post(cu, payload, db_ok) IN
       o.resp.status = 401 /\ o.posts = posts
  /\ \A cu \in Refused("posts"), page \in 1..MaxPage, limit \in 1..MaxLimit,
        rows \in OrderedDesc(posts), db_ok \in BOOLEAN :
       list_posts(cu, page, limit, rows, db_ok).status = 401
  /\ \A cu \in Refused("vote"), post_id \in PostIds, payload \in VotePayloads :
       LET o == vote_post(votes, cu, post_id, payload) IN
       o.resp.status = 401 /\ o.votes = votes
  /\ \A cu \in Refused("comments"), post_id \in PostIds, page \in 1..MaxPage,
        limit \in 1..MaxLimit, db_ok \in BOOLEAN :
       list_comments(cu, post_id, page, limit, <<>>, db_ok).status = 401
  /\ \A cu \in Refused("comment"), post_id \in PostIds,
        payload \in CommentCreate, reread_ok \in BOOLEAN :
       LET o == create_comment(comments, cu, post_id, payload, reread_ok) IN
       o.resp.status = 401 /\ o.comments = comments
  /\ resp.status = 401 => resp.headers = "WWW-Authenticate: Bearer"

\* C8 witness: a request to a protected route was answered 401 while the
\* store holds a post, a vote and a comment.
C8_Witness ==
  /\ resp.status = 401
  /\ posts # {} /\ votes # EmptyBag /\ comments # {}

\* A post row as every creation path of this system writes it.
AsCreated(p) ==
  /\ p.status = "PENDING"
  /\ p.category = None
  /\ Cardinality({u \in users : u.id = p.user_id}) = 1

\* C13: every post row has status PENDING, no category and one owning user;
\* both creation paths, for every request, add at most one row, so made and
\* owned by the authenticated caller; and no request of the API changes or
\* removes a row: the table only grows, by one row, on a successful creation.
C13_PostsPending ==
  /\ [](/\ \A p \in posts : AsCreated(p)
        /\ \A cu \in Credentials("post_file"), image \in UploadFiles,
              s3_ok \in BOOLEAN, db_ok \in BOOLEAN :
             \A p \in create_post_file(cu, image, s3_ok, db_ok).posts \ posts :
               cu.status = 200 /\ Str(p.user_id) = cu.body.id /\ p.status = "PENDING"
        /\ \A cu \in Credentials("post"), payload \in PostCreate, db_ok \in BOOLEAN :
             \A p \in create_post(cu, payload, db_ok).posts \ posts :
               cu.status = 200 /\ Str(p.user_id) = cu.body.id /\ p.status = "PENDING")
  /\ [][/\ posts \subseteq posts'
        /\ posts' # posts =>
             /\ resp'.op \in {"post", "post_file"}
             /\ resp'.status = 200
             /\ Cardinality(posts' \ posts) = 1
             /\ \A p \in posts' \ posts : p.id = resp'.body.post_id]_vars

\* C13 witness: a post stands as created after a vote and a comment on it.
C13_Witness ==
  /\ resp.op = "comment"
  /\ resp.status = 200
  /\ votes # EmptyBag
  /\ \E p \in posts : AsCreated(p) /\ \E c \in comments : c.post_id = p.id

(***************************************************************************)
(* Properties of the two creation paths and the trigger (SpecUpload).      *)
(***************************************************************************)

\* C14: a server-proxy upload schedules a trigger exactly when it succeeds:
\* one task, for the post it has just committed, and none when the object
\* write or the insert failed; every scheduled task is for a post of the
\* table; and whenever a task is added, the request was a successful
\* server-proxy upload and the task is for its new post, so no post gets a
\* second task and register-after-direct-upload schedules none.
C14_TriggerScheduled ==
  /\ [](/\ \A cu \in Credentials("post_file"), image \in UploadFiles,
              s3_ok \in BOOLEAN, db_ok \in BOOLEAN :
             LET o == create_post_file(cu, image, s3_ok, db_ok)
                 sched == o.tasks \ tasks
             IN /\ tasks \subseteq o.tasks
                /\ (o.resp.status = 200) <=> (sched # {})
                /\ (~s3_ok \/ ~db_ok) => sched = {}
                /\ o.resp.status = 200 =>
                     /\ Cardinality(sched) = 1
                     /\ \A t \in sched :
                          /\ t.func = "trigger_kestra"
                          /\ t.args[1] = o.resp.body.post_id
                          /\ \E p \in o.posts \ posts : p.id = t.args[1]
        /\ \A t \in tasks : \E p \in posts : p.id = t.args[1])
  /\ [][tasks' \ tasks # {} =>
          /\ resp'.op = "post_file"
          /\ resp'.status = 200
          /\ \A t \in tasks' \ tasks :
               /\ t.args[1] = resp'.body.post_id
               /\ ~post_exists(t.args[1])
               /\ \E p \in posts' : p.id = t.args[1]]_vars

\* C14 witness: the trigger of a post uploaded through the server is
\* scheduled and has not run yet.
C14_Witness ==
  /\ resp.op = "post_file"
  /\ resp.status = 200
  /\ \E t \in tasks : t.args[1] = resp.body.post_id
  /\ trig = NoTrigger

(***************************************************************************)
(* Properties of the flow from registration to the listing (SpecFlow).     *)
(***************************************************************************)

\* The post created last.
Newest == {p \in posts : \A q \in posts : q.id[2] <= p.id[2]}

\* A field of an item is absent: the item has no such field, or it is null.
Absent(item, field) == field \notin DOMAIN item \/ item[field] = None

\* C15: once a registered user has registered a post after a direct upload,
\* the first page of the listing, asked by that user, has that post as its
\* first item, with status PENDING, no votes, no comments, and neither
\* category nor scores.
C15_EndToEnd ==
  \A p \in Newest, cu \in Callers("posts"), L \in 1..MaxLimit,
     rows \in OrderedDesc(posts) :
    cu.body.id = Str(p.user_id) =>
      LET r == list_posts(cu, 1, L, rows, TRUE)
          item == r.body.items[1]
      IN /\ r.status = 200
         /\ Len(r.body.items) >= 1
         /\ item.id = p.id
         /\ item.upvotes = 0 /\ item.downvotes = 0 /\ item.user_vote = 0
         /\ item.comments_count = 0
         /\ Absent(item, "category")
         /\ Absent(item, "severity_score")
         /\ Absent(item, "authenticity_score")
         /\ Absent(item, "composite_score")
         /\ "status" \in DOMAIN item
         /\ item.status = "PENDING"

(***************************************************************************)
(* Properties of votes whose requests run at the same time (SpecVoteRace). *)
(***************************************************************************)

\* C16: whatever the interleaving of the statements of the vote requests in
\* flight, the table votes holds at most one row for a post and a user, and
\* the value of every row is the value of one of the requests made.
C16_OneRowPerPair ==
  /\ \A p \in posts, u \in UserIds :
       BagCardinality(RowsOf(votes, p.id, u)) <= 1
  /\ \A x \in DOMAIN votes :
       \E i \in Requests : inflight[i].pc # "idle" /\ inflight[i].v = x.vote

(***************************************************************************)
(* Properties of registrations that run at the same time                   *)
(* (SpecRegisterRace).                                                     *)
(***************************************************************************)

\* C17: whatever the interleaving of the existence queries and the inserts
\* of the Register requests in flight, no two user rows share a username and
\* no two user rows share an email.
C17_UniqueUsers ==
  \A r1, r2 \in users :
    r1 # r2 => (r1.username # r2.username /\ r1.email # r2.email)

(***************************************************************************)
(* Properties of the values stored by the vote handler (SpecVote).         *)
(***************************************************************************)

\* C18: every row of the table votes has value +1 or -1, and stays so under
\* every vote request: a vote of 0 on an existing post leaves no row of the
\* caller for that post, and a value outside +1, -1, 0 writes nothing.
C18_VoteValues ==
  /\ \A x \in DOMAIN votes : x.vote \in {1, -1}
  /\ \A cu \in Credentials("vote"), post_id \in PostIds,
        payload \in VotePayloads :
       LET o == vote_post(votes, cu, post_id, payload)
           v == payload_vote(payload)
       IN /\ \A x \in DOMAIN o.votes : x.vote \in {1, -1}
          /\ (v = 0 /\ o.resp.status = 200) =>
               RowsOf(o.votes, post_id, cast_id(cu.body.id)) = EmptyBag
          /\ v \notin {1, -1, 0} => o.votes = votes

\* C18 witness: a vote of 0 has removed the caller's row while the row of
\* another user stands.
C18_Witness ==
  /\ resp.op = "vote"
  /\ resp.status = 200
  /\ resp.vote = 0
  /\ resp.body.upvotes + resp.body.downvotes = 1
  /\ BagCardinality(votes) = 1
  /\ RowsOf(votes, resp.post_id, cast_id(resp.caller)) = EmptyBag

\* C19: a vote request or create-comment request that ends in an error
\* response, at whichever statement, leaves the tables votes and comments as
\* they were; the tables change only when a request commits and answers 200;
\* a comment inserted by a request that then failed is not in the table.
C19_Atomic ==
  /\ [](\A i \in Requests :
         (inflight[i].pc = "done" /\ inflight[i].op = "comment"
            /\ inflight[i].status # 200)
           => inflight[i].wrote \cap comments = {})
  /\ [][\A i \in Requests :
         (inflight[i].pc # "done" /\ inflight'[i].pc = "done"
            /\ inflight'[i].status # 200)
           => (votes' = votes /\ comments' = comments)]_vars
  /\ [][(votes' # votes \/ comments' # comments)
         => \E i \in Requests :
              /\ inflight[i].pc \in {"commit", "c_commit"}
              /\ inflight'[i].pc = "done"
              /\ inflight'[i].status = 200]_vars

\* A create-comment request was answered 500 after its INSERT had run, and
\* the row it inserted is not in the table.
C19_Witness ==
  \E i \in Requests :
    /\ inflight[i].pc = "done"
    /\ inflight[i].op = "comment"
    /\ inflight[i].status = 500
    /\ inflight[i].wrote # {}
    /\ inflight[i].wrote \cap comments = {}

\* C20: a server-proxy upload that ends in an error response leaves neither
\* a post row nor a stored object of its own behind: the table posts and the
\* bucket are as they were before the request.
C20_NoPartialWrite ==
  [][(resp'.op = "post_file" /\ resp'.status # 200)
       => (posts' = posts /\ objects' = objects)]_vars

\* C21: the trigger a server-proxy upload scheduled runs with the timeout of
\* 10 seconds and with the id of the new post as post_id: so does every task
\* still scheduled, and so did the last trigger that ran.
C21_TriggerTimeout ==
  /\ \A t \in tasks :
       /\ \E p \in posts : p.id = t.args[1]
       /\ Len(t.args) >= 2 => t.args[2] = PyInt(KestraDefaultTimeout)
  /\ trig.post_id # None =>
       /\ \E p \in posts : p.id = trig.post_id
       /\ trig.timeout = PyInt(KestraDefaultTimeout)

\* C22: a login with the password of a user answers 200 with a token whose
\* subject is that user's id, whether the hash upgrade is not needed, commits
\* or fails; a failed or unneeded upgrade leaves the table users as it was;
\* a committed upgrade replaces the hash of that user's row by one the same
\* password verifies against and that needs no further upgrade, and changes
\* no other field and no other row.
C22_LoginUpgrade ==
  \A form_data \in OAuth2PasswordRequestForm, committed \in BOOLEAN :
    \A user_row \in get_user_by_username(form_data.username) :
      verify_password(form_data.password, user_row.hashed_password) =>
        LET o == login(form_data, committed)
        IN /\ o.resp.status = 200
           /\ o.resp.body.token_type = "bearer"
           /\ o.resp.body.access_token.claims.sub = Str(user_row.id)
           /\ (~needs_update(user_row.hashed_password) \/ ~committed)
                 => o.users = users
           /\ (needs_update(user_row.hashed_password) /\ committed) =>
                 \E r \in o.users :
                   /\ r.id = user_row.id
                   /\ r.username = user_row.username
                   /\ r.email = user_row.email
                   /\ verify_password(form_data.password, r.hashed_password)
                   /\ ~needs_update(r.hashed_password)
                   /\ o.users \ {r} = users \ {user_row}

\* C22 witness: alice, whose stored hash needed the upgrade, has logged in;
\* her row holds an upgraded hash that her password verifies against, and
\* bob's row still holds the hash it had.
C22_Witness ==
  /\ resp.op = "login"
  /\ resp.status = 200
  /\ resp.body.access_token.claims.sub = Str(1)
  /\ \E r \in users :
       /\ r.id = 1
       /\ ~needs_update(r.hashed_password)
       /\ verify_password("password1", r.hashed_password)
  /\ \E r \in users : r.id = 2 /\ r.hashed_password = legacy_hash("password2")

\* C23: a vote request on an existing post whose body has no field 'vote' is
\* treated as a vote of 0: it is answered 200 with user_vote 0, as the body
\* {"vote": 0} is; the caller's row for the post, if there is one, is gone
\* and every other row of the table votes is as it was.
C23_MissingVote ==
  /\ \A cu \in Callers("vote"), p \in posts :
       LET u == cast_id(cu.body.id)
           o == vote_post(votes, cu, p.id, [k \in {} |-> 0])
       IN /\ o.resp.status = 200
          /\ o.resp.body.user_vote = 0
          /\ o = vote_post(votes, cu, p.id, VoteBody(0))
          /\ RowsOf(o.votes, p.id, u) = EmptyBag
          /\ o.votes = votes (-) RowsOf(votes, p.id, u)
  /\ (resp.op = "vote" /\ resp.status = 200 /\ "vote" \notin DOMAIN resp.payload)
       => /\ resp.body.user_vote = 0
          /\ RowsOf(votes, resp.post_id, cast_id(resp.caller)) = EmptyBag

\* C23 witness: a vote request without the field was answered 200; the
\* caller had a row for the post, which is gone, and the row of another user
\* for the post stands.
C23_Witness ==
  /\ resp.op = "vote"
  /\ resp.status = 200
  /\ "vote" \notin DOMAIN resp.payload
  /\ resp.had_row
  /\ resp.body.user_vote = 0
  /\ RowsOf(votes, resp.post_id, cast_id(resp.caller)) = EmptyBag
  /\ \E x \in DOMAIN votes : x.post_id = resp.post_id

====
